---- MODULE Spec2Model ----
(***************************************************************************)
(* One bin of the accounts index (runtime/src/in_mem_accounts_index.rs)    *)
(* and the manager of its backing store and background thread              *)
(* (runtime/src/accounts_index_storage.rs).                                *)
(*                                                                         *)
(* A fatal failure (a failed assert!, an out-of-range Vec::remove, an      *)
(* unwrap of an Err) ends the run: `panicked` is set, the state is left as *)
(* the code leaves it at the point of the panic, and no further operation  *)
(* is taken.                                                               *)
(***************************************************************************)
EXTENDS Integers, Sequences, FiniteSets, TLC

(* ------------------------------ bounds --------------------------------- *)
\* largest reference count an entry is driven to
MaxRefCount == 3
\* longest reclaim list a caller passes in
MaxReclaims == 1
\* most pairs a caller puts into the slot list of a new entry
MaxPending == 2
\* most lookups counted as found, and most counted as missing
MaxGets == 2
\* largest value a timer or the counter of items or of keys is driven to
MaxStat == 1
\* longest time one lookup is measured to take, in microseconds
MaxElapsedUs == 1

(* ------------------------------ values --------------------------------- *)
\* Pubkey
Keys == {"K1", "K2"}
\* Slot
Slots == {5, 7}
\* T: IsCached -- the account info of one version: held in the write cache
\* only, or stored
AccountInfos == {"cached", "stored"}
SlotListItems == Slots \X AccountInfos
\* Arc<AccountMapEntryInner<T>> -- identities of the entries alive at once
EntryIds == 1 .. (Cardinality(Keys) + 1)
NoEntry == 0
NoSlot == 0
NoInfo == "none"
NoItem == <<NoSlot, NoInfo>>

IsCached(account_info) == account_info = "cached"

RECURSIVE NonCachedCount(_)
NonCachedCount(list) ==
    IF list = <<>> THEN 0
    ELSE (IF IsCached(Head(list)[2]) THEN 0 ELSE 1) + NonCachedCount(Tail(list))

\* AccountMapEntryInner { ref_count, slot_list }
NewEntry(list) == [slot_list |-> list, ref_count |-> NonCachedCount(list)]
EmptyInner == [slot_list |-> <<>>, ref_count |-> 0]

\* the slot lists a caller wraps into a new entry: every list for the first
\* key; for the other keys, which are there to show what an operation on one
\* key does to another, lists of one stored version
ItemsFor(k) == IF k = "K1" THEN SlotListItems ELSE {<<5, "stored">>}
PayloadsOfLen(k, n) == [1 .. n -> ItemsFor(k)]
OnePairPayloads(k) == PayloadsOfLen(k, 1)
\* ... and the lists of any length, over three items, for the first key
AnyItems == {<<5, "stored">>, <<5, "cached">>, <<7, "stored">>}
AnyPayloads == UNION {[1 .. n -> AnyItems] : n \in 0 .. MaxPending}

Min(S) == CHOOSE x \in S : \A y \in S : x <= y

VARIABLES
    map,        \* InMemAccountsIndex.map : Pubkey -> entry (NoEntry: vacant)
    entries,    \* the AccountMapEntryInner behind each entry identity
    reclaims,   \* the caller's reclaim list
    last,       \* the operation that ran last: its arguments and what it returned
    panicked,   \* a fatal failure has ended the run
    th,         \* per thread: where it is in its operation, the entry it holds
    wlock,      \* per entry: the thread holding slot_list for write
    exit,       \* AccountsIndexStorage.exit
    bg,         \* where the background thread is
    drop,       \* where the drop of the AccountsIndexStorage is
    lost_notify,\* notify_all ran while the background thread was not waiting
    stats       \* BucketMapHolder.stats

bin_vars == <<map, entries, reclaims, last, panicked>>
thread_vars == <<th, wlock>>
storage_vars == <<exit, bg, drop, lost_notify>>
vars == <<map, entries, reclaims, last, panicked, th, wlock, exit, bg, drop,
          lost_notify, stats>>

\* the caller that owns the bin (&mut self), and the holders of entry handles
Owner == "o"
Updaters == {"u1", "u2"}
Threads == {Owner} \cup Updaters
Free == "free"
\* pc: where the thread is; cur, key: the entry it holds a handle to and that
\* entry's key; calls: the lookups (get, entry) it has completed; in a merge,
\* slot, info, flag: the pending pair and previous_slot_entry_was_cached; seen:
\* the inner as it was when the merge began; idx: the list_index the scan
\* stopped at (0 for none); addref: what update_slot_list returns; recl: the
\* reclaim list the thread handed in; nv: the entry it passes as new_value,
\* when that is one it holds a handle to
IdleThread == [pc |-> "idle", cur |-> NoEntry, key |-> "none", calls |-> 0,
               slot |-> NoSlot, info |-> NoInfo, flag |-> FALSE,
               seen |-> EmptyInner, idx |-> 0, addref |-> FALSE, recl |-> <<>>,
               nv |-> NoEntry]

\* op: the operation; key, slot, info, flag, npending: its arguments (the first
\* pair and the length of the new entry's slot list); displaced: the item
\* update_slot_list swapped out; ret: the bool returned (for a merge, what
\* update_slot_list returned; for insert_new_entry_if_missing_with_lock, Some);
\* handle, out_info: the entry and the account info returned
\* out_items, out_keys, out_len: what items, keys and len returned
Idle == [op |-> "none", key |-> "none", slot |-> NoSlot, info |-> NoInfo,
         flag |-> FALSE, npending |-> 0, displaced |-> NoItem,
         ret |-> FALSE, handle |-> NoEntry, out_info |-> NoInfo,
         out_items |-> {}, out_keys |-> {}, out_len |-> 0]

Called(op, pubkey, new_list, previous_slot_entry_was_cached) ==
    [Idle EXCEPT !.op = op, !.key = pubkey,
                 !.slot = IF new_list = <<>> THEN NoSlot ELSE new_list[1][1],
                 !.info = IF new_list = <<>> THEN NoInfo ELSE new_list[1][2],
                 !.flag = previous_slot_entry_was_cached,
                 !.npending = Len(new_list)]

\* an entry identity no holder refers to
HeldBy(e) == {t \in Threads : th[t].cur = e \/ th[t].nv = e}
InUse(e) == (\E k \in Keys : map[k] = e) \/ HeldBy(e) # {}
FreshEntry == Min({e \in EntryIds : ~InUse(e)})
\* the entries after one handle to e is dropped, `others` still holding it:
\* the inner goes with its last Arc
Dropped(e, others) ==
    IF others = {} THEN [entries EXCEPT ![e] = EmptyInner] ELSE entries
MapHolds(e) == \E k \in Keys : map[k] = e

(* --------------------------- update_slot_list -------------------------- *)
\* update_slot_list without the scan for the slot: every pair is appended
UpdateSlotListNoScan(list, slot, account_info, recl, previous_slot_entry_was_cached) ==
    [list |-> Append(list, <<slot, account_info>>), reclaims |-> recl,
     addref |-> ~IsCached(account_info), displaced |-> NoItem, panic |-> FALSE]

\* update_slot_list pushing the displaced item whatever the flag says
UpdateSlotListAlwaysReclaims(list, slot, account_info, recl, previous_slot_entry_was_cached) ==
    LET found == {i \in 1 .. Len(list) : list[i][1] = slot}
    IN  IF found = {}
        THEN [list |-> Append(list, <<slot, account_info>>), reclaims |-> recl,
              addref |-> ~IsCached(account_info), displaced |-> NoItem,
              panic |-> FALSE]
        ELSE [list |-> [list EXCEPT ![Min(found)] = <<slot, account_info>>],
              reclaims |-> Append(recl, list[Min(found)]),
              addref |-> ~IsCached(account_info) /\ IsCached(list[Min(found)][2]),
              displaced |-> list[Min(found)],
              panic |-> previous_slot_entry_was_cached
                        /\ ~IsCached(list[Min(found)][2])]

\* update_slot_list whose addref forgets what the slot held before
UpdateSlotListAddrefOfNewOnly(list, slot, account_info, recl, previous_slot_entry_was_cached) ==
    LET found == {i \in 1 .. Len(list) : list[i][1] = slot}
    IN  IF found = {}
        THEN [list |-> Append(list, <<slot, account_info>>), reclaims |-> recl,
              addref |-> ~IsCached(account_info), displaced |-> NoItem,
              panic |-> FALSE]
        ELSE [list |-> [list EXCEPT ![Min(found)] = <<slot, account_info>>],
              reclaims |-> IF previous_slot_entry_was_cached THEN recl
                           ELSE Append(recl, list[Min(found)]),
              addref |-> ~IsCached(account_info),
              displaced |-> list[Min(found)],
              panic |-> previous_slot_entry_was_cached
                        /\ ~IsCached(list[Min(found)][2])]

\* update_slot_list whose addref is narrowed by every item the scan passes,
\* not only by the item of the slot
UpdateSlotListAddrefOfAllScanned(list, slot, account_info, recl, previous_slot_entry_was_cached) ==
    LET found == {i \in 1 .. Len(list) : list[i][1] = slot}
        scanned == IF found = {} THEN 1 .. Len(list) ELSE 1 .. Min(found)
        addref == ~IsCached(account_info)
                  /\ \A i \in scanned : IsCached(list[i][2])
    IN  IF found = {}
        THEN [list |-> Append(list, <<slot, account_info>>), reclaims |-> recl,
              addref |-> addref, displaced |-> NoItem, panic |-> FALSE]
        ELSE [list |-> [list EXCEPT ![Min(found)] = <<slot, account_info>>],
              reclaims |-> IF previous_slot_entry_was_cached THEN recl
                           ELSE Append(recl, list[Min(found)]),
              addref |-> addref,
              displaced |-> list[Min(found)],
              panic |-> previous_slot_entry_was_cached
                        /\ ~IsCached(list[Min(found)][2])]

\* update_slot_list without assert!(previous_was_cached)
UpdateSlotListNoCachedAssert(list, slot, account_info, recl, previous_slot_entry_was_cached) ==
    LET found == {i \in 1 .. Len(list) : list[i][1] = slot}
    IN  IF found = {}
        THEN [list |-> Append(list, <<slot, account_info>>), reclaims |-> recl,
              addref |-> ~IsCached(account_info), displaced |-> NoItem,
              panic |-> FALSE]
        ELSE [list |-> [list EXCEPT ![Min(found)] = <<slot, account_info>>],
              reclaims |-> IF previous_slot_entry_was_cached THEN recl
                           ELSE Append(recl, list[Min(found)]),
              addref |-> ~IsCached(account_info) /\ IsCached(list[Min(found)][2]),
              displaced |-> list[Min(found)],
              panic |-> FALSE]

\* update_slot_list that takes the item of the slot out and pushes the pair
\* at the end
UpdateSlotListRemoveAndPush(list, slot, account_info, recl, previous_slot_entry_was_cached) ==
    LET found == {i \in 1 .. Len(list) : list[i][1] = slot}
    IN  IF found = {}
        THEN [list |-> Append(list, <<slot, account_info>>), reclaims |-> recl,
              addref |-> ~IsCached(account_info), displaced |-> NoItem,
              panic |-> FALSE]
        ELSE [list |-> Append(SubSeq(list, 1, Min(found) - 1)
                              \o SubSeq(list, Min(found) + 1, Len(list)),
                              <<slot, account_info>>),
              reclaims |-> IF previous_slot_entry_was_cached THEN recl
                           ELSE Append(recl, list[Min(found)]),
              addref |-> ~IsCached(account_info) /\ IsCached(list[Min(found)][2]),
              displaced |-> list[Min(found)],
              panic |-> previous_slot_entry_was_cached
                        /\ ~IsCached(list[Min(found)][2])]

\* the outcome of update_slot_list: the list and the reclaim list as the call
\* leaves them, what it returns, the item swapped out, and whether an assert!
\* failed
UpdateSlotList(list, slot, account_info, recl, previous_slot_entry_was_cached) ==
    LET addref == ~IsCached(account_info)
        found == {i \in 1 .. Len(list) : list[i][1] = slot}
    IN  IF found = {}
        THEN [list |-> Append(list, <<slot, account_info>>), reclaims |-> recl,
              addref |-> addref, displaced |-> NoItem, panic |-> FALSE]
        ELSE LET list_index == Min(found)
                 new_item == list[list_index]
                 previous_was_cached == IsCached(new_item[2])
                 swapped == [list EXCEPT ![list_index] = <<slot, account_info>>]
                 cached_assert_fails ==
                     previous_slot_entry_was_cached /\ ~previous_was_cached
                 rest_assert_fails ==
                     \E j \in (list_index + 1) .. Len(list) : swapped[j][1] = slot
             IN  [list |-> swapped,
                  reclaims |-> IF previous_slot_entry_was_cached THEN recl
                               ELSE Append(recl, new_item),
                  addref |-> addref /\ previous_was_cached,
                  displaced |-> new_item,
                  panic |-> cached_assert_fails \/ rest_assert_fails]

\* update_slot_list called on the slot list of the entry e with the caller's
\* reclaim list
UpdateSlotListCall(e, slot, account_info, previous_slot_entry_was_cached) ==
    /\ ~panicked
    /\ Len(reclaims) <= MaxReclaims
    /\ LET u == UpdateSlotList(entries[e].slot_list, slot, account_info,
                               reclaims, previous_slot_entry_was_cached)
       IN  /\ entries' = [entries EXCEPT ![e].slot_list = u.list]
           /\ reclaims' = u.reclaims
           /\ panicked' = u.panic
           /\ last' = [Called("update_slot_list", "none",
                              << <<slot, account_info>> >>,
                              previous_slot_entry_was_cached)
                         EXCEPT !.displaced = u.displaced, !.ret = u.addref,
                                !.handle = e]
    /\ UNCHANGED <<map, thread_vars, storage_vars, stats>>

\* AccountMapEntryInner::add_un_ref
AddUnRef(inner, add) ==
    [inner EXCEPT !.ref_count = IF add THEN @ + 1 ELSE @ - 1]

(* ---------------------- lock_and_update_slot_list ---------------------- *)
\* lock_and_update_slot_list that drops what update_slot_list returns
LockAndUpdateSlotListNoAddRef(current, new_list, recl, previous_slot_entry_was_cached) ==
    IF new_list = <<>>
    THEN [current |-> current, new_list |-> new_list, reclaims |-> recl,
          addref |-> FALSE, displaced |-> NoItem, panic |-> TRUE]
    ELSE LET u == UpdateSlotList(current.slot_list, Head(new_list)[1],
                                 Head(new_list)[2], recl,
                                 previous_slot_entry_was_cached)
         IN  [current |-> [current EXCEPT !.slot_list = u.list],
              new_list |-> Tail(new_list), reclaims |-> u.reclaims,
              addref |-> u.addref, displaced |-> u.displaced, panic |-> u.panic]

\* lock_and_update_slot_list that insists on exactly one pending pair
LockAndUpdateSlotListExactlyOne(current, new_list, recl, previous_slot_entry_was_cached) ==
    IF Len(new_list) # 1
    THEN [current |-> current, new_list |-> new_list, reclaims |-> recl,
          addref |-> FALSE, displaced |-> NoItem, panic |-> TRUE]
    ELSE LET u == UpdateSlotList(current.slot_list, Head(new_list)[1],
                                 Head(new_list)[2], recl,
                                 previous_slot_entry_was_cached)
             updated == [current EXCEPT !.slot_list = u.list]
         IN  [current |-> IF u.addref /\ ~u.panic
                          THEN [updated EXCEPT !.ref_count = @ + 1] ELSE updated,
              new_list |-> Tail(new_list), reclaims |-> u.reclaims,
              addref |-> u.addref, displaced |-> u.displaced, panic |-> u.panic]

\* the outcome of lock_and_update_slot_list on the inner `current` with the
\* slot list `new_list` of new_value
LockAndUpdateSlotList(current, new_list, recl, previous_slot_entry_was_cached) ==
    IF new_list = <<>>
    THEN \* Vec::remove(0) on an empty list panics, nothing is changed yet
         [current |-> current, new_list |-> new_list, reclaims |-> recl,
          addref |-> FALSE, displaced |-> NoItem, panic |-> TRUE]
    ELSE LET slot == Head(new_list)[1]
             new_entry == Head(new_list)[2]
             u == UpdateSlotList(current.slot_list, slot, new_entry, recl,
                                 previous_slot_entry_was_cached)
             updated == [current EXCEPT !.slot_list = u.list]
         IN  [current |-> IF u.addref /\ ~u.panic THEN AddUnRef(updated, TRUE)
                          ELSE updated,
              new_list |-> Tail(new_list), reclaims |-> u.reclaims,
              addref |-> u.addref, displaced |-> u.displaced, panic |-> u.panic]

(* -------------------------------- upsert ------------------------------- *)
\* the merge of new_value's first pair into the entry `cur`, as upsert and a
\* holder of a handle run it
Merge(op, pubkey, cur, new_list, previous_slot_entry_was_cached) ==
    LET r == LockAndUpdateSlotList(entries[cur], new_list, reclaims,
                                   previous_slot_entry_was_cached)
    IN  /\ entries[cur].ref_count < MaxRefCount
        /\ Len(reclaims) < MaxReclaims
        /\ wlock[cur] = Free
        /\ entries' = [entries EXCEPT ![cur] = r.current]
        /\ reclaims' = r.reclaims
        /\ panicked' = r.panic
        /\ map' = map
        /\ last' = [Called(op, pubkey, new_list, previous_slot_entry_was_cached)
                       EXCEPT !.displaced = r.displaced, !.ret = r.addref,
                              !.handle = cur]

\* an upsert that puts new_value in the place of the entry it finds
UpsertReplacing(pubkey, new_list, previous_slot_entry_was_cached) ==
    /\ ~panicked
    /\ IF map[pubkey] # NoEntry
       THEN /\ entries' = [entries EXCEPT ![map[pubkey]] = NewEntry(new_list)]
            /\ last' = [Called("upsert", pubkey, new_list,
                               previous_slot_entry_was_cached)
                          EXCEPT !.handle = map[pubkey]]
            /\ UNCHANGED <<map, reclaims, panicked>>
       ELSE /\ map' = [map EXCEPT ![pubkey] = FreshEntry]
            /\ entries' = [entries EXCEPT ![FreshEntry] = NewEntry(new_list)]
            /\ last' = Called("upsert", pubkey, new_list,
                              previous_slot_entry_was_cached)
            /\ UNCHANGED <<reclaims, panicked>>
    /\ UNCHANGED <<thread_vars, storage_vars, stats>>

Upsert(pubkey, new_list, previous_slot_entry_was_cached) ==
    /\ ~panicked
    /\ IF map[pubkey] # NoEntry
       THEN Merge("upsert", pubkey, map[pubkey], new_list,
                  previous_slot_entry_was_cached)
       ELSE /\ map' = [map EXCEPT ![pubkey] = FreshEntry]
            /\ entries' = [entries EXCEPT ![FreshEntry] = NewEntry(new_list)]
            /\ last' = Called("upsert", pubkey, new_list,
                              previous_slot_entry_was_cached)
            /\ UNCHANGED <<reclaims, panicked>>
    /\ UNCHANGED <<thread_vars, storage_vars, stats>>

(* ----------------------- remove_if_slot_list_empty --------------------- *)
\* remove_if_slot_list_empty without the look at the slot list
RemoveIfPresent(pubkey) ==
    /\ ~panicked
    /\ IF map[pubkey] # NoEntry
       THEN /\ map' = [map EXCEPT ![pubkey] = NoEntry]
            /\ entries' = Dropped(map[pubkey], HeldBy(map[pubkey]))
            /\ last' = [Idle EXCEPT !.op = "remove_if_slot_list_empty",
                                    !.key = pubkey, !.ret = TRUE]
       ELSE /\ last' = [Idle EXCEPT !.op = "remove_if_slot_list_empty",
                                    !.key = pubkey, !.ret = FALSE]
            /\ UNCHANGED <<map, entries>>
    /\ UNCHANGED <<reclaims, panicked, thread_vars, storage_vars, stats>>

RemoveIfSlotListEmpty(pubkey) ==
    /\ ~panicked
    /\ map[pubkey] # NoEntry => wlock[map[pubkey]] = Free
    /\ IF map[pubkey] # NoEntry /\ entries[map[pubkey]].slot_list = <<>>
       THEN /\ map' = [map EXCEPT ![pubkey] = NoEntry]
            /\ entries' = Dropped(map[pubkey], HeldBy(map[pubkey]))
            /\ last' = [Idle EXCEPT !.op = "remove_if_slot_list_empty",
                                    !.key = pubkey, !.ret = TRUE]
       ELSE /\ last' = [Idle EXCEPT !.op = "remove_if_slot_list_empty",
                                    !.key = pubkey, !.ret = FALSE]
            /\ UNCHANGED <<map, entries>>
    /\ UNCHANGED <<reclaims, panicked, thread_vars, storage_vars, stats>>

(* ---------------- insert_new_entry_if_missing_with_lock ---------------- *)
\* insert_new_entry_if_missing_with_lock that installs the new entry whether
\* or not the key is there
InsertNewEntryAlways(pubkey, new_list) ==
    /\ ~panicked
    /\ map' = [map EXCEPT ![pubkey] = IF @ = NoEntry THEN FreshEntry ELSE @]
    /\ entries' = [entries EXCEPT
                     ![IF map[pubkey] = NoEntry THEN FreshEntry ELSE map[pubkey]] =
                         NewEntry(new_list)]
    /\ last' = IF map[pubkey] = NoEntry
               THEN Called("insert_new_entry_if_missing_with_lock",
                           pubkey, new_list, FALSE)
               ELSE [Called("insert_new_entry_if_missing_with_lock",
                            pubkey, new_list, FALSE)
                       EXCEPT !.ret = TRUE, !.handle = map[pubkey],
                              !.out_info = Head(new_list)[2]]
    /\ UNCHANGED <<reclaims, panicked, thread_vars, storage_vars, stats>>

InsertNewEntryIfMissingWithLock(pubkey, new_list) ==
    /\ ~panicked
    /\ IF map[pubkey] # NoEntry
       THEN \* Some((existing entry, new_entry.slot_list.remove(0).1, key))
            /\ panicked' = (new_list = <<>>)
            /\ last' = IF new_list = <<>>
                       THEN [Called("insert_new_entry_if_missing_with_lock",
                                    pubkey, new_list, FALSE)
                               EXCEPT !.handle = map[pubkey]]
                       ELSE [Called("insert_new_entry_if_missing_with_lock",
                                    pubkey, new_list, FALSE)
                               EXCEPT !.ret = TRUE, !.handle = map[pubkey],
                                      !.out_info = Head(new_list)[2]]
            /\ UNCHANGED <<map, entries>>
       ELSE \* None
            /\ map' = [map EXCEPT ![pubkey] = FreshEntry]
            /\ entries' = [entries EXCEPT ![FreshEntry] = NewEntry(new_list)]
            /\ last' = Called("insert_new_entry_if_missing_with_lock",
                              pubkey, new_list, FALSE)
            /\ UNCHANGED panicked
    /\ UNCHANGED <<reclaims, thread_vars, storage_vars, stats>>

(* ------------------------------ environment ---------------------------- *)
\* a holder of the entry takes its slot list for write and removes one item
\* (what purging a slot does)
PurgeSlot(pubkey, i) ==
    /\ ~panicked
    /\ map[pubkey] # NoEntry
    /\ wlock[map[pubkey]] = Free
    /\ i \in 1 .. Len(entries[map[pubkey]].slot_list)
    /\ entries' = [entries EXCEPT ![map[pubkey]].slot_list =
                      SubSeq(@, 1, i - 1) \o SubSeq(@, i + 1, Len(@))]
    /\ last' = [Idle EXCEPT !.op = "purge", !.key = pubkey]
    /\ UNCHANGED <<map, reclaims, panicked, thread_vars, storage_vars, stats>>

\* the caller hands its reclaim list on and starts a new one
NewReclaims ==
    /\ ~panicked
    /\ reclaims # <<>>
    /\ reclaims' = <<>>
    /\ last' = [Idle EXCEPT !.op = "new_reclaims"]
    /\ UNCHANGED <<map, entries, panicked, thread_vars, storage_vars, stats>>

(* ------------------ the bin and the holders of handles ----------------- *)
\* The operations that take &mut self run one at a time, by whichever thread
\* has the bin to itself (the owner); a thread that was handed an entry by
\* insert_new_entry_if_missing_with_lock merges into it through the handle,
\* with no hold on the bin.
OwnerIdle == th[Owner].pc = "idle"
Step(op) == [Idle EXCEPT !.op = op]

\* the caller of insert_new_entry_if_missing_with_lock keeps the entry it was
\* handed in Some(..)
KeepHandle(t) ==
    /\ ~panicked
    /\ t \in Updaters
    /\ th[t].pc = "idle"
    /\ last.op = "insert_new_entry_if_missing_with_lock"
    /\ last.ret
    /\ th' = [th EXCEPT ![t] = [th[t] EXCEPT !.pc = "have", !.cur = last.handle,
                                              !.key = last.key]]
    /\ last' = Step("keep_handle")
    /\ UNCHANGED <<map, entries, reclaims, panicked, wlock, storage_vars, stats>>

\* a write() that does not wait for the holder of the lock
LockCurrentNoWait(t) ==
    /\ ~panicked
    /\ th[t].pc = "have"
    /\ wlock' = [wlock EXCEPT ![th[t].cur] = t]
    /\ th' = [th EXCEPT ![t].pc = "locked"]
    /\ last' = Step("lock_current")
    /\ UNCHANGED <<map, entries, reclaims, panicked, storage_vars, stats>>

\* lock_and_update_slot_list, line 127: current.slot_list.write()
LockCurrent(t) ==
    /\ ~panicked
    /\ th[t].pc = "have"
    /\ wlock[th[t].cur] = Free
    /\ wlock' = [wlock EXCEPT ![th[t].cur] = t]
    /\ th' = [th EXCEPT ![t].pc = "locked"]
    /\ last' = Step("lock_current")
    /\ UNCHANGED <<map, entries, reclaims, panicked, storage_vars, stats>>

\* lock_and_update_slot_list, lines 128-138, under the write lock: the pending
\* pair is taken from a new entry of the caller's, merged, and the reference
\* count adjusted; the caller handed in an empty reclaim list
UpdateLocked(t, new_list, previous_slot_entry_was_cached) ==
    /\ ~panicked
    /\ th[t].pc = "locked"
    /\ entries[th[t].cur].ref_count < MaxRefCount
    /\ LET cur == th[t].cur
           r == LockAndUpdateSlotList(entries[cur], new_list, <<>>,
                                      previous_slot_entry_was_cached)
       IN  /\ entries' = [entries EXCEPT ![cur] = r.current]
           /\ reclaims' = r.reclaims
           /\ panicked' = r.panic
           /\ last' = [Called("lock_and_update_slot_list", th[t].key, new_list,
                              previous_slot_entry_was_cached)
                          EXCEPT !.displaced = r.displaced, !.ret = r.addref,
                                 !.handle = cur]
    /\ th' = [th EXCEPT ![t].pc = "updated"]
    /\ UNCHANGED <<map, wlock, storage_vars, stats>>

\* lock_and_update_slot_list, line 139: the guard goes out of scope; the caller
\* lets go of the handle
Unlock(t) ==
    /\ ~panicked
    /\ th[t].pc = "updated"
    /\ wlock' = [wlock EXCEPT ![th[t].cur] = Free]
    /\ entries' = IF MapHolds(th[t].cur) THEN entries
                  ELSE Dropped(th[t].cur, HeldBy(th[t].cur) \ {t})
    /\ th' = [th EXCEPT ![t] = [IdleThread EXCEPT !.calls = th[t].calls]]
    /\ last' = Step("unlock")
    /\ UNCHANGED <<map, reclaims, panicked, storage_vars, stats>>

\* The merge of a holder of a handle, followed through its steps under the
\* write lock.
InMerge(t) == th[t].pc \in {"locked", "scanned", "written", "updated"}

\* lock_and_update_slot_list, line 128, and update_slot_list, lines 150-155:
\* the pending pair is taken from a new entry of the caller's and the list is
\* scanned for its slot; the caller handed in an empty reclaim list
MergeScan(t, new_list, previous_slot_entry_was_cached) ==
    /\ ~panicked
    /\ th[t].pc = "locked"
    /\ entries[th[t].cur].ref_count < MaxRefCount
    /\ IF new_list = <<>>
       THEN /\ panicked' = TRUE
            /\ th' = th
       ELSE LET list == entries[th[t].cur].slot_list
                found == {i \in 1 .. Len(list) : list[i][1] = Head(new_list)[1]}
            IN  /\ th' = [th EXCEPT ![t].pc = "scanned",
                                    ![t].slot = Head(new_list)[1],
                                    ![t].info = Head(new_list)[2],
                                    ![t].flag = previous_slot_entry_was_cached,
                                    ![t].seen = entries[th[t].cur],
                                    ![t].idx = IF found = {} THEN 0
                                               ELSE Min(found),
                                    ![t].recl = <<>>]
                /\ panicked' = panicked
    /\ last' = Step("merge_scan")
    /\ UNCHANGED <<map, entries, reclaims, wlock, storage_vars, stats>>

\* update_slot_list, lines 156-175: the swap at list_index with its asserts
\* and the push to the reclaim list, or the push of the pair at the end
MergeWrite(t) ==
    /\ ~panicked
    /\ th[t].pc = "scanned"
    /\ LET cur == th[t].cur
           list == entries[cur].slot_list
           pair == <<th[t].slot, th[t].info>>
           list_index == th[t].idx
       IN  IF list_index = 0
           THEN /\ entries' = [entries EXCEPT ![cur].slot_list = Append(list, pair)]
                /\ th' = [th EXCEPT ![t].pc = "written",
                                    ![t].addref = ~IsCached(th[t].info)]
                /\ panicked' = panicked
           ELSE LET new_item == list[list_index]
                    previous_was_cached == IsCached(new_item[2])
                    swapped == [list EXCEPT ![list_index] = pair]
                IN  /\ entries' = [entries EXCEPT ![cur].slot_list = swapped]
                    /\ th' = [th EXCEPT
                                ![t].pc = "written",
                                ![t].addref = ~IsCached(th[t].info)
                                              /\ previous_was_cached,
                                ![t].recl = IF th[t].flag THEN @
                                            ELSE Append(@, new_item)]
                    /\ panicked' =
                          \/ th[t].flag /\ ~previous_was_cached
                          \/ \E j \in (list_index + 1) .. Len(list) :
                                 swapped[j][1] = th[t].slot
    /\ last' = Step("merge_write")
    /\ UNCHANGED <<map, reclaims, wlock, storage_vars, stats>>

\* lock_and_update_slot_list, lines 136-138: if addref, current.add_un_ref(true)
MergeAddRef(t) ==
    /\ ~panicked
    /\ th[t].pc = "written"
    /\ entries' = IF th[t].addref
                  THEN [entries EXCEPT ![th[t].cur] = AddUnRef(@, TRUE)]
                  ELSE entries
    /\ th' = [th EXCEPT ![t].pc = "updated"]
    /\ last' = [Called("lock_and_update_slot_list", th[t].key,
                       << <<th[t].slot, th[t].info>> >>, th[t].flag)
                  EXCEPT !.ret = th[t].addref, !.handle = th[t].cur]
    /\ UNCHANGED <<map, reclaims, panicked, wlock, storage_vars, stats>>

\* The merge whose new_value is an entry other holders have handles to.
\* the caller keeps a second entry that insert_new_entry_if_missing_with_lock
\* handed out, to pass it as new_value
KeepNewValue(t) ==
    /\ ~panicked
    /\ t \in Updaters
    /\ th[t].pc = "have"
    /\ th[t].nv = NoEntry
    /\ last.op = "insert_new_entry_if_missing_with_lock"
    /\ last.ret
    /\ th' = [th EXCEPT ![t].nv = last.handle]
    /\ last' = Step("keep_new_value")
    /\ UNCHANGED <<map, entries, reclaims, panicked, wlock, storage_vars, stats>>

\* lock_and_update_slot_list, line 128, on a new_value that is another entry:
\* new_value.slot_list.write() waits for that entry's lock, remove(0) takes its
\* first pair (and panics on an empty list), the guard is released with the
\* statement; then the scan of update_slot_list, lines 150-155
MergeTakeShared(t, previous_slot_entry_was_cached) ==
    /\ ~panicked
    /\ th[t].pc = "locked"
    /\ th[t].nv # NoEntry
    /\ th[t].nv # th[t].cur
    /\ wlock[th[t].nv] = Free
    /\ entries[th[t].cur].ref_count < MaxRefCount
    /\ LET new_list == entries[th[t].nv].slot_list
           list == entries[th[t].cur].slot_list
       IN  IF new_list = <<>>
           THEN /\ panicked' = TRUE
                /\ UNCHANGED <<th, entries>>
           ELSE LET found == {i \in 1 .. Len(list) :
                                  list[i][1] = Head(new_list)[1]}
                IN  /\ entries' = [entries EXCEPT ![th[t].nv].slot_list =
                                                       Tail(new_list)]
                    /\ th' = [th EXCEPT
                                ![t].pc = "scanned",
                                ![t].slot = Head(new_list)[1],
                                ![t].info = Head(new_list)[2],
                                ![t].flag = previous_slot_entry_was_cached,
                                ![t].seen = entries[th[t].cur],
                                ![t].idx = IF found = {} THEN 0 ELSE Min(found),
                                ![t].recl = <<>>]
                    /\ panicked' = panicked
    /\ last' = Step("merge_take")
    /\ UNCHANGED <<map, reclaims, wlock, storage_vars, stats>>

\* line 128 when new_value is the entry the thread has locked in line 127:
\* write() on a lock the thread itself holds blocks for good or panics; this
\* is the panic
MergeTakeSelf(t) ==
    /\ ~panicked
    /\ th[t].pc = "locked"
    /\ th[t].nv = th[t].cur
    /\ panicked' = TRUE
    /\ last' = Step("merge_take")
    /\ UNCHANGED <<map, entries, reclaims, th, wlock, storage_vars, stats>>

\* remove_if_slot_list_empty, line 90: self.map.entry(pubkey)
RemoveLookup(pubkey) ==
    /\ ~panicked
    /\ OwnerIdle
    /\ IF map[pubkey] # NoEntry
       THEN /\ th' = [th EXCEPT ![Owner] = [th[Owner] EXCEPT !.pc = "rm_check",
                                                      !.cur = map[pubkey],
                                                      !.key = pubkey]]
            /\ last' = Step("remove_lookup")
       ELSE /\ last' = [Idle EXCEPT !.op = "remove_if_slot_list_empty",
                                    !.key = pubkey, !.ret = FALSE]
            /\ UNCHANGED th
    /\ UNCHANGED <<map, entries, reclaims, panicked, wlock, storage_vars, stats>>

\* remove_if_slot_list_empty, line 91: slot_list.read().unwrap().is_empty();
\* the read guard is a temporary of the condition and is gone when the
\* condition has been evaluated
RemoveCheck ==
    /\ ~panicked
    /\ th[Owner].pc = "rm_check"
    /\ wlock[th[Owner].cur] = Free
    /\ IF entries[th[Owner].cur].slot_list = <<>>
       THEN /\ th' = [th EXCEPT ![Owner].pc = "rm_remove"]
            /\ last' = Step("remove_check")
       ELSE /\ th' = [th EXCEPT ![Owner] = [IdleThread EXCEPT !.calls = th[Owner].calls]]
            /\ last' = [Idle EXCEPT !.op = "remove_if_slot_list_empty",
                                    !.key = th[Owner].key, !.ret = FALSE]
    /\ UNCHANGED <<map, entries, reclaims, panicked, wlock, storage_vars, stats>>

\* remove_if_slot_list_empty, lines 92-93: index_entry.remove(); return true
RemoveEntry ==
    /\ ~panicked
    /\ th[Owner].pc = "rm_remove"
    /\ map' = [map EXCEPT ![th[Owner].key] = NoEntry]
    /\ entries' = Dropped(th[Owner].cur, HeldBy(th[Owner].cur) \ {Owner})
    /\ th' = [th EXCEPT ![Owner] = [IdleThread EXCEPT !.calls = th[Owner].calls]]
    /\ last' = [Idle EXCEPT !.op = "remove_if_slot_list_empty",
                            !.key = th[Owner].key, !.ret = TRUE]
    /\ UNCHANGED <<reclaims, panicked, wlock, storage_vars, stats>>

(* --------------------------------- stats ------------------------------ *)
\* BucketMapHolderStats, all counters at zero
NoStats == [gets_from_mem |-> 0, get_mem_us |-> 0, gets_missing |-> 0,
            get_missing_us |-> 0, items |-> 0, keys |-> 0]

\* update_stat: fetch_add, skipped for a zero value
UpdateStat(st, stat, value) ==
    IF value # 0 THEN [st EXCEPT ![stat] = @ + value] ELSE st

\* range: &Option<&R> of items: <<>> for None, <<S>> for Some(range holding S)
Ranges == {<<>>} \cup {<<S>> : S \in SUBSET Keys}
RangeContains(range, k) == IF range = <<>> THEN TRUE ELSE k \in range[1]

\* update_time_stat: the measured microseconds go to the timer
UpdateTimeStat(st, stat, elapsed_us) == UpdateStat(st, stat, elapsed_us)

\* a get that evicts the key it finds with an empty slot list
GetEvictingEmpty(key, elapsed_us) ==
    /\ ~panicked
    /\ LET found == map[key] # NoEntry
           count == IF found THEN "gets_from_mem" ELSE "gets_missing"
           time == IF found THEN "get_mem_us" ELSE "get_missing_us"
       IN  /\ stats[count] < MaxGets
           /\ stats[time] + elapsed_us <= MaxStat
           /\ stats' = UpdateStat(UpdateTimeStat(stats, time, elapsed_us),
                                  count, 1)
           /\ last' = [Idle EXCEPT !.op = "get", !.key = key, !.ret = found,
                                   !.handle = map[key]]
           /\ map' = IF found /\ entries[map[key]].slot_list = <<>>
                     THEN [map EXCEPT ![key] = NoEntry] ELSE map
    /\ UNCHANGED <<entries, reclaims, panicked, thread_vars, storage_vars>>

\* get: the lookup, the timer and the counter of its outcome, the clone handed
\* back (the caller lets go of it at once)
Get(key, elapsed_us) ==
    /\ ~panicked
    /\ LET found == map[key] # NoEntry
           count == IF found THEN "gets_from_mem" ELSE "gets_missing"
           time == IF found THEN "get_mem_us" ELSE "get_missing_us"
       IN  /\ stats[count] < MaxGets
           /\ stats[time] + elapsed_us <= MaxStat
           /\ stats' = UpdateStat(UpdateTimeStat(stats, time, elapsed_us),
                                  count, 1)
           /\ last' = [Idle EXCEPT !.op = "get", !.key = key, !.ret = found,
                                   !.handle = map[key]]
    /\ UNCHANGED <<map, entries, reclaims, panicked, thread_vars, storage_vars>>

(* ------------------------------- lookups ------------------------------- *)
(* ----------------- lookups by threads that run together ---------------- *)
\* get takes &self and entry &mut self: gets of several threads overlap, an
\* entry runs alone.  A lookup is followed through its three steps: the look
\* into the map, update_time_stat, update_stat.
InLookup(t) == th[t].pc \in {"get_time", "get_count", "entry_time", "entry_count"}
InEntry(t) == th[t].pc \in {"entry_time", "entry_count"}
AllIdle == \A t \in Threads : th[t].pc = "idle"
RECURSIVE SumCalls(_)
SumCalls(S) ==
    IF S = {} THEN 0
    ELSE LET t == CHOOSE x \in S : TRUE IN th[t].calls + SumCalls(S \ {t})
CountOf(t) == IF th[t].cur # NoEntry THEN "gets_from_mem" ELSE "gets_missing"
TimeOf(t) == IF th[t].cur # NoEntry THEN "get_mem_us" ELSE "get_missing_us"

\* get, lines 74-81, and entry, lines 41-49: Measure::start, the look into the
\* map, the choice of counter and timer
LookupBegin(t, op, key) ==
    /\ ~panicked
    /\ th[t].pc = "idle"
    /\ IF op = "entry" THEN t = Owner /\ AllIdle
       ELSE \A x \in Threads : ~InEntry(x)
    /\ stats.gets_from_mem + stats.gets_missing
         + Cardinality({x \in Threads : InLookup(x)}) < MaxGets
    /\ th' = [th EXCEPT ![t] = [th[t] EXCEPT !.pc = IF op = "entry" THEN "entry_time"
                                                     ELSE "get_time",
                                              !.cur = map[key], !.key = key]]
    /\ last' = Step("lookup_begin")
    /\ UNCHANGED <<map, entries, reclaims, panicked, wlock, storage_vars, stats>>

\* get, line 82, and entry, line 50: update_time_stat(time, m)
LookupTime(t, elapsed_us) ==
    /\ ~panicked
    /\ th[t].pc \in {"get_time", "entry_time"}
    /\ stats[TimeOf(t)] + elapsed_us <= MaxStat
    /\ stats' = UpdateTimeStat(stats, TimeOf(t), elapsed_us)
    /\ th' = [th EXCEPT ![t].pc = IF th[t].pc = "entry_time" THEN "entry_count"
                                  ELSE "get_count"]
    /\ last' = Step("lookup_time")
    /\ UNCHANGED <<map, entries, reclaims, panicked, wlock, storage_vars>>

\* update_stat done with a load and a store: of two that run together on one
\* counter, one is lost
LookupCountLoadStore(t) ==
    /\ ~panicked
    /\ th[t].pc \in {"get_count", "entry_count"}
    /\ stats' = IF \E x \in Threads \ {t} :
                       /\ th[x].pc \in {"get_count", "entry_count"}
                       /\ CountOf(x) = CountOf(t)
                THEN stats
                ELSE UpdateStat(stats, CountOf(t), 1)
    /\ th' = [th EXCEPT ![t] = [IdleThread EXCEPT !.calls = th[t].calls + 1]]
    /\ last' = [Idle EXCEPT !.op = IF th[t].pc = "entry_count" THEN "entry"
                                   ELSE "get",
                            !.key = th[t].key, !.ret = (th[t].cur # NoEntry),
                            !.handle = th[t].cur]
    /\ UNCHANGED <<map, entries, reclaims, panicked, wlock, storage_vars>>

\* get, lines 83-84, and entry, lines 51-52: update_stat(count, 1), a
\* fetch_add, and the return of the result
LookupCount(t) ==
    /\ ~panicked
    /\ th[t].pc \in {"get_count", "entry_count"}
    /\ stats' = UpdateStat(stats, CountOf(t), 1)
    /\ th' = [th EXCEPT ![t] = [IdleThread EXCEPT !.calls = th[t].calls + 1]]
    /\ last' = [Idle EXCEPT !.op = IF th[t].pc = "entry_count" THEN "entry"
                                   ELSE "get",
                            !.key = th[t].key, !.ret = (th[t].cur # NoEntry),
                            !.handle = th[t].cur]
    /\ UNCHANGED <<map, entries, reclaims, panicked, wlock, storage_vars>>

\* an entry that fills a vacant entry with an empty inner
EntryCallInsertingDefault(pubkey, elapsed_us) ==
    /\ ~panicked
    /\ LET occupied == map[pubkey] # NoEntry
           count == IF occupied THEN "gets_from_mem" ELSE "gets_missing"
           time == IF occupied THEN "get_mem_us" ELSE "get_missing_us"
       IN  /\ stats[count] < MaxGets
           /\ stats[time] + elapsed_us <= MaxStat
           /\ stats' = UpdateStat(UpdateTimeStat(stats, time, elapsed_us),
                                  count, 1)
           /\ map' = IF occupied THEN map ELSE [map EXCEPT ![pubkey] = FreshEntry]
           /\ last' = [Idle EXCEPT !.op = "entry", !.key = pubkey,
                                   !.ret = occupied, !.handle = map'[pubkey]]
    /\ UNCHANGED <<entries, reclaims, panicked, thread_vars, storage_vars>>

\* entry: as get, with the map's Entry handed back
EntryCall(pubkey, elapsed_us) ==
    /\ ~panicked
    /\ LET occupied == map[pubkey] # NoEntry
           count == IF occupied THEN "gets_from_mem" ELSE "gets_missing"
           time == IF occupied THEN "get_mem_us" ELSE "get_missing_us"
       IN  /\ stats[count] < MaxGets
           /\ stats[time] + elapsed_us <= MaxStat
           /\ stats' = UpdateStat(UpdateTimeStat(stats, time, elapsed_us),
                                  count, 1)
           /\ last' = [Idle EXCEPT !.op = "entry", !.key = pubkey,
                                   !.ret = occupied, !.handle = map[pubkey]]
    /\ UNCHANGED <<map, entries, reclaims, panicked, thread_vars, storage_vars>>

\* items: the counter, then a clone of every (key, entry) the range holds
ItemsCall(range) ==
    /\ ~panicked
    /\ stats.items < MaxStat
    /\ stats' = UpdateStat(stats, "items", 1)
    /\ last' = [Idle EXCEPT !.op = "items",
                  !.out_items = {<<k, map[k]>> : k \in
                      {x \in Keys : map[x] # NoEntry /\ RangeContains(range, x)}}]
    /\ UNCHANGED <<map, entries, reclaims, panicked, thread_vars, storage_vars>>

\* keys: the counter, then the keys of the map
KeysCall ==
    /\ ~panicked
    /\ stats.keys < MaxStat
    /\ stats' = UpdateStat(stats, "keys", 1)
    /\ last' = [Idle EXCEPT !.op = "keys",
                            !.out_keys = {k \in Keys : map[k] # NoEntry}]
    /\ UNCHANGED <<map, entries, reclaims, panicked, thread_vars, storage_vars>>

\* len: self.map.len()
LenCall ==
    /\ ~panicked
    /\ last' = [Idle EXCEPT !.op = "len",
                  !.out_len = Cardinality({k \in Keys : map[k] # NoEntry})]
    /\ UNCHANGED <<map, entries, reclaims, panicked, thread_vars, storage_vars,
                   stats>>

\* is_empty: self.len() == 0
IsEmptyCall ==
    /\ ~panicked
    /\ last' = [Idle EXCEPT !.op = "is_empty",
                  !.ret = (Cardinality({k \in Keys : map[k] # NoEntry}) = 0)]
    /\ UNCHANGED <<map, entries, reclaims, panicked, thread_vars, storage_vars,
                   stats>>

(* ------------------------- storage lifecycle --------------------------- *)
\* AccountsIndexStorage::new has run: the flag is false and the thread is in
\* BucketMapHolder::background, about to wait.  The loop is that of the
\* backing store: wait on the wake signal for at most the upkeep period, leave
\* if the exit flag is set, otherwise do the upkeep and wait again.
BgBeginWait ==
    /\ bg = "to_wait"
    /\ bg' = "waiting"
    /\ last' = Step("bg_begin_wait")
    /\ UNCHANGED <<map, entries, reclaims, panicked, thread_vars, stats, exit, drop, lost_notify>>

\* the upkeep period runs out with no notification
BgTimeout ==
    /\ bg = "waiting"
    /\ bg' = "check"
    /\ last' = Step("bg_timeout")
    /\ UNCHANGED <<map, entries, reclaims, panicked, thread_vars, stats, exit, drop, lost_notify>>

\* the loop reads the exit flag
BgCheckExit ==
    /\ bg = "check"
    /\ bg' = IF exit THEN "done" ELSE "work"
    /\ last' = Step("bg_check_exit")
    /\ UNCHANGED <<map, entries, reclaims, panicked, thread_vars, stats, exit, drop, lost_notify>>

\* one round of upkeep, which either completes or panics
BgUpkeep(ok) ==
    /\ bg = "work"
    /\ bg' = IF ok THEN "to_wait" ELSE "panicked"
    /\ last' = Step("bg_upkeep")
    /\ UNCHANGED <<map, entries, reclaims, panicked, thread_vars, stats, exit, drop, lost_notify>>


\* drop, line 29: self.exit.store(true)
DropStoreExit ==
    /\ drop = "alive"
    /\ exit' = TRUE
    /\ drop' = "exit_stored"
    /\ last' = Step("drop_store_exit")
    /\ UNCHANGED <<map, entries, reclaims, panicked, thread_vars, stats, bg, lost_notify>>

\* a drop that may broadcast before it has stored the flag
DropNotifyAllFirst ==
    /\ drop \in {"alive", "exit_stored"}
    /\ drop' = "notified"
    /\ bg' = IF bg = "waiting" THEN "check" ELSE bg
    /\ lost_notify' = (bg # "waiting")
    /\ last' = Step("drop_notify_all")
    /\ UNCHANGED <<map, entries, reclaims, panicked, thread_vars, stats, exit>>

\* drop, line 30: self.wait.notify_all() wakes the thread if it is waiting and
\* is lost otherwise
DropNotifyAll ==
    /\ drop = "exit_stored"
    /\ drop' = "notified"
    /\ bg' = IF bg = "waiting" THEN "check" ELSE bg
    /\ lost_notify' = (bg # "waiting")
    /\ last' = Step("drop_notify_all")
    /\ UNCHANGED <<map, entries, reclaims, panicked, thread_vars, stats, exit>>

\* a drop that does not wait for the thread
DropJoinNoWait ==
    /\ drop = "notified"
    /\ drop' = "returned"
    /\ last' = Step("drop_join")
    /\ UNCHANGED <<map, entries, reclaims, panicked, thread_vars, stats, exit,
                   bg, lost_notify>>

\* a drop that joins and drops the thread's result
DropJoinIgnoringPanic ==
    /\ drop = "notified"
    /\ bg \in {"done", "panicked"}
    /\ drop' = "returned"
    /\ last' = Step("drop_join")
    /\ UNCHANGED <<map, entries, reclaims, panicked, thread_vars, stats, exit,
                   bg, lost_notify>>

\* drop, lines 31-33: handle.take() is Some; join() blocks until the thread is
\* gone and unwrap() turns the thread's panic into a panic of drop
DropJoin ==
    /\ drop = "notified"
    /\ bg \in {"done", "panicked"}
    /\ drop' = IF bg = "done" THEN "returned" ELSE "panicked"
    /\ last' = Step("drop_join")
    /\ UNCHANGED <<map, entries, reclaims, panicked, thread_vars, stats, exit, bg, lost_notify>>

(* ----------------------------- specification --------------------------- *)
Init ==
    /\ map = [k \in Keys |-> NoEntry]
    /\ entries = [e \in EntryIds |-> EmptyInner]
    /\ reclaims = <<>>
    /\ last = Idle
    /\ panicked = FALSE
    /\ th = [t \in Threads |-> IdleThread]
    /\ wlock = [e \in EntryIds |-> Free]
    /\ exit = FALSE
    /\ bg = "to_wait"
    /\ drop = "alive"
    /\ lost_notify = FALSE
    /\ stats = NoStats

\* slot lists with at most one item per slot, as the merges keep them
SlotLists ==
    {list \in UNION {[1 .. n -> SlotListItems] : n \in 0 .. Cardinality(Slots)} :
        \A i, j \in 1 .. Len(list) : i # j => list[i][1] # list[j][1]}
ReclaimLists == UNION {[1 .. n -> SlotListItems] : n \in 0 .. MaxReclaims}

\* update_slot_list on any slot list and any reclaim list
InitLists ==
    /\ map = [k \in Keys |-> IF k = "K1" THEN 1 ELSE NoEntry]
    /\ \E list \in SlotLists :
          entries = [e \in EntryIds |-> IF e = 1 THEN NewEntry(list)
                                        ELSE EmptyInner]
    /\ reclaims \in ReclaimLists
    /\ last = Idle
    /\ panicked = FALSE
    /\ th = [t \in Threads |-> IdleThread]
    /\ wlock = [e \in EntryIds |-> Free]
    /\ exit = FALSE
    /\ bg = "to_wait"
    /\ drop = "alive"
    /\ lost_notify = FALSE
    /\ stats = NoStats

\* the bin driven by one caller at a time, every new entry carrying one pair
Next ==
    \/ \E k \in Keys, f \in BOOLEAN : \E nv \in OnePairPayloads(k) : Upsert(k, nv, f)
    \/ \E k \in Keys : \E nv \in OnePairPayloads(k) :
          InsertNewEntryIfMissingWithLock(k, nv)
    \/ \E k \in Keys : RemoveIfSlotListEmpty(k)
    \/ \E k \in Keys, i \in 1 .. Cardinality(Slots) : PurgeSlot(k, i)
    \/ NewReclaims

Spec == Init /\ [][Next]_vars

\* one key of the same bin, the new entries carrying any number of pairs up
\* to MaxPending
NextAnyPayload ==
    \/ \E f \in BOOLEAN, nv \in AnyPayloads : Upsert("K1", nv, f)
    \/ \E nv \in AnyPayloads : InsertNewEntryIfMissingWithLock("K1", nv)
    \/ RemoveIfSlotListEmpty("K1")
    \/ NewReclaims

SpecAnyPayload == Init /\ [][NextAnyPayload]_vars

\* one key of the bin, its owner, and a thread that merges through a handle
NextHandles ==
    \/ OwnerIdle /\ \E nv \in OnePairPayloads("K1") :
                       InsertNewEntryIfMissingWithLock("K1", nv)
    \/ OwnerIdle /\ \E i \in 1 .. Cardinality(Slots) : PurgeSlot("K1", i)
    \/ RemoveLookup("K1")
    \/ RemoveCheck
    \/ RemoveEntry
    \/ KeepHandle("u1")
    \/ LockCurrent("u1")
    \/ \E f \in BOOLEAN, nv \in OnePairPayloads("K1") :
          UpdateLocked("u1", nv, f)
    \/ Unlock("u1")

SpecHandles == Init /\ [][NextHandles]_vars

\* the bin under lookups and the operations that change it
NextLookups ==
    \/ \E k \in Keys, elapsed_us \in 0 .. MaxElapsedUs : Get(k, elapsed_us)
    \/ \E k \in Keys, elapsed_us \in 0 .. MaxElapsedUs : EntryCall(k, elapsed_us)
    \/ \E range \in Ranges : ItemsCall(range)
    \/ KeysCall
    \/ LenCall
    \/ IsEmptyCall
    \/ \E f \in BOOLEAN : Upsert("K1", << <<5, "stored">> >>, f)
    \/ InsertNewEntryIfMissingWithLock("K1", << <<5, "stored">> >>)
    \/ \E k \in Keys : RemoveIfSlotListEmpty(k)
    \/ PurgeSlot("K1", 1)

SpecLookups == Init /\ [][NextLookups]_vars

\* lookups of three threads, and the bin changing when none of them is in it
NextCounters ==
    \/ \E t \in Threads, op \in {"get", "entry"}, k \in Keys : LookupBegin(t, op, k)
    \/ \E t \in Threads, elapsed_us \in 0 .. MaxElapsedUs : LookupTime(t, elapsed_us)
    \/ \E t \in Threads : LookupCount(t)
    \/ (\A x \in Threads : ~InEntry(x)) /\ \E range \in Ranges : ItemsCall(range)
    \/ (\A x \in Threads : ~InEntry(x)) /\ KeysCall
    \/ AllIdle /\ InsertNewEntryIfMissingWithLock("K1", << <<5, "stored">> >>)
    \/ AllIdle /\ PurgeSlot("K1", 1)
    \/ AllIdle /\ RemoveIfSlotListEmpty("K1")

SpecCounters == Init /\ [][NextCounters]_vars

\* two keys, and two threads that merge through handles to their entries
MergePayloads == {<<>>, << <<5, "stored">> >>, << <<7, "stored">> >>}
NextMerges ==
    \/ OwnerIdle /\ \E k \in Keys :
                       InsertNewEntryIfMissingWithLock(k, << <<5, "cached">> >>)
    \/ \E t \in Updaters : KeepHandle(t)
    \/ \E t \in Updaters : LockCurrent(t)
    \/ \E t \in Updaters, f \in BOOLEAN, nv \in MergePayloads :
          MergeScan(t, nv, f)
    \/ \E t \in Updaters : MergeWrite(t)
    \/ \E t \in Updaters : MergeAddRef(t)
    \/ \E t \in Updaters : Unlock(t)

SpecMerges == Init /\ [][NextMerges]_vars

\* two keys, and two threads that merge an entry they hold a handle to into
\* another; a thread that can take a step again and again takes it in the
\* end (a lock that keeps becoming free is granted to the one waiting for it)
ThreadStep(t) ==
    \/ LockCurrent(t) /\ entries[th[t].cur].ref_count < MaxRefCount
    \/ th[t].nv = NoEntry /\ MergeScan(t, << <<7, "stored">> >>, FALSE)
    \/ MergeTakeShared(t, FALSE)
    \/ MergeWrite(t)
    \/ MergeAddRef(t)
    \/ Unlock(t)
NextShared ==
    \/ OwnerIdle /\ \E k \in Keys :
                       InsertNewEntryIfMissingWithLock(k, << <<5, "stored">> >>)
    \/ \E t \in Updaters : KeepHandle(t)
    \/ \E t \in Updaters : KeepNewValue(t)
    \/ \E t \in Updaters :
          LockCurrent(t) /\ entries[th[t].cur].ref_count < MaxRefCount
    \/ \E t \in Updaters :
          th[t].nv = NoEntry /\ MergeScan(t, << <<7, "stored">> >>, FALSE)
    \/ \E t \in Updaters : MergeTakeShared(t, FALSE)
    \/ \E t \in Updaters : MergeTakeSelf(t)
    \/ \E t \in Updaters : MergeWrite(t)
    \/ \E t \in Updaters : MergeAddRef(t)
    \/ \E t \in Updaters : Unlock(t)

SpecShared ==
    Init /\ [][NextShared]_vars /\ \A t \in Updaters : SF_vars(ThreadStep(t))

NextLists ==
    \/ \E slot \in Slots, account_info \in AccountInfos, f \in BOOLEAN :
          UpdateSlotListCall(1, slot, account_info, f)
    \/ NewReclaims

SpecLists == InitLists /\ [][NextLists]_vars

\* the storage manager, its background thread, and lookups in a bin of it
BgStep == BgBeginWait \/ BgTimeout \/ BgCheckExit \/ \E ok \in BOOLEAN : BgUpkeep(ok)
DropStep == DropNotifyAll \/ DropJoin
NextStorage ==
    \/ \E k \in Keys, elapsed_us \in 0 .. MaxElapsedUs : Get(k, elapsed_us)
    \/ InsertNewEntryIfMissingWithLock("K1", << <<5, "stored">> >>)
    \/ BgBeginWait
    \/ BgTimeout
    \/ BgCheckExit
    \/ \E ok \in BOOLEAN : BgUpkeep(ok)
    \/ DropStoreExit
    \/ DropNotifyAll
    \/ DropJoin

\* the thread is scheduled, and a drop that has begun goes on
SpecStorage ==
    Init /\ [][NextStorage]_vars /\ WF_vars(BgStep) /\ WF_vars(DropStep)

(* ------------------------------ properties ----------------------------- *)
SlotListOf(k) == entries[map[k]].slot_list
RefCountOf(k) == entries[map[k]].ref_count
HasSlot(list, slot) == \E i \in 1 .. Len(list) : list[i][1] = slot
IndexOfSlot(list, slot) == Min({i \in 1 .. Len(list) : list[i][1] = slot})
InfoAtSlot(list, slot) == list[IndexOfSlot(list, slot)][2]
\* the step is an upsert that found its key present: a merge
MergeStep == last'.op = "upsert" /\ map[last'.key] # NoEntry
Merged == last.op = "upsert" /\ last.handle # NoEntry

\* C1 -- no duplicate slots: after every merge (and between any two
\* operations) the slot list of every entry holds at most one item per slot.
C1_NoDuplicateSlots ==
    \A e \in EntryIds :
        \A i, j \in 1 .. Len(entries[e].slot_list) :
            i # j => entries[e].slot_list[i][1] # entries[e].slot_list[j][1]

\* a merge has replaced the item of its slot in a list of two
C1_Witness ==
    /\ Merged /\ ~panicked
    /\ last.displaced # NoItem
    /\ Len(entries[last.handle].slot_list) = 2

\* C2 -- conditional removal: remove_if_slot_list_empty returns false and
\* changes neither the map nor any slot list when the key is absent or its slot
\* list is nonempty; it returns true and the key is absent afterwards when the
\* key is present with an empty slot list.
C2_ConditionalRemoval ==
    [][last'.op = "remove_if_slot_list_empty" =>
        LET k == last'.key
        IN  IF map[k] # NoEntry /\ SlotListOf(k) = <<>>
            THEN last'.ret = TRUE /\ map'[k] = NoEntry
            ELSE last'.ret = FALSE /\ map' = map /\ entries' = entries]_vars

\* a removal has succeeded, and one has been refused on a nonempty list
C2_Witness ==
    /\ last.op = "remove_if_slot_list_empty"
    /\ last.ret = TRUE
    /\ map[last.key] = NoEntry
    /\ \E k \in Keys : map[k] # NoEntry /\ SlotListOf(k) # <<>>

\* C4 -- cache-to-live transition: a merge of a stored (non-cached) version
\* at a slot that holds a cached version, with previous_slot_entry_was_cached
\* = true, completes, puts the incoming pair in the place of that item, leaves
\* the reclaim list as it was, returns addref = true and raises the entry's
\* reference count by exactly one.
C4_CacheToLive ==
    [][(/\ MergeStep
        /\ last'.flag /\ ~IsCached(last'.info)
        /\ HasSlot(SlotListOf(last'.key), last'.slot)
        /\ IsCached(InfoAtSlot(SlotListOf(last'.key), last'.slot)))
       =>
       LET k == last'.key
           i == IndexOfSlot(SlotListOf(k), last'.slot)
       IN  /\ ~panicked'
           /\ map' = map
           /\ entries'[map[k]].slot_list =
                 [SlotListOf(k) EXCEPT ![i] = <<last'.slot, last'.info>>]
           /\ reclaims' = reclaims
           /\ last'.ret = TRUE
           /\ entries'[map[k]].ref_count = RefCountOf(k) + 1]_vars

C4_Witness ==
    /\ Merged /\ ~panicked
    /\ last.flag /\ ~IsCached(last.info)
    /\ last.displaced = <<last.slot, "cached">>
    /\ reclaims = <<>>
    /\ entries[last.handle].ref_count > 0

\* C5 -- same-class replacement: a merge that completes and puts a stored
\* version at a slot that holds a stored version appends the displaced pair to
\* the reclaim list, returns addref = false and leaves the entry's reference
\* count as it was.  (With previous_slot_entry_was_cached = true this merge
\* does not complete: the assert fails.)
C5_SameClassReplacement ==
    [][(/\ MergeStep /\ ~panicked'
        /\ ~IsCached(last'.info)
        /\ HasSlot(SlotListOf(last'.key), last'.slot)
        /\ ~IsCached(InfoAtSlot(SlotListOf(last'.key), last'.slot)))
       =>
       LET k == last'.key
           i == IndexOfSlot(SlotListOf(k), last'.slot)
       IN  /\ reclaims' = Append(reclaims, SlotListOf(k)[i])
           /\ last'.ret = FALSE
           /\ map' = map
           /\ entries'[map[k]].ref_count = RefCountOf(k)]_vars

C5_Witness ==
    /\ Merged /\ ~panicked
    /\ ~IsCached(last.info)
    /\ last.displaced = <<last.slot, "stored">>
    /\ reclaims = <<last.displaced>>

\* C6 -- new-slot append: a merge of a pair whose slot the list does not hold
\* completes, appends the pair at the end (the length grows by one), leaves
\* the reclaim list as it was and returns addref = not is_cached of the
\* incoming version, whatever the list holds and whatever
\* previous_slot_entry_was_cached is.
C6_NewSlotAppend ==
    [][(MergeStep /\ ~HasSlot(SlotListOf(last'.key), last'.slot))
       =>
       LET k == last'.key
       IN  /\ ~panicked'
           /\ map' = map
           /\ entries'[map[k]].slot_list = Append(SlotListOf(k), <<last'.slot, last'.info>>)
           /\ Len(entries'[map[k]].slot_list) = Len(SlotListOf(k)) + 1
           /\ reclaims' = reclaims
           /\ last'.ret = ~IsCached(last'.info)]_vars

\* a stored version was appended, with the flag set, behind a stored one
C6_Witness ==
    /\ Merged /\ ~panicked
    /\ last.displaced = NoItem
    /\ last.flag /\ last.ret
    /\ Len(entries[last.handle].slot_list) = 2
    /\ entries[last.handle].slot_list[2] = <<last.slot, last.info>>
    /\ ~IsCached(entries[last.handle].slot_list[1][2])

\* C7 as claimed -- a merge that completes on an entry whose reference count
\* equals the number of non-cached versions in its slot list leaves the two
\* equal.
C7_RefCountEqualsNonCached ==
    [][(/\ MergeStep /\ ~panicked'
        /\ RefCountOf(last'.key) = NonCachedCount(SlotListOf(last'.key)))
       => entries'[map[last'.key]].ref_count =
            NonCachedCount(entries'[map[last'.key]].slot_list)]_vars

\* a cached version has taken the place of a stored one
Demotes(list, slot, account_info) ==
    /\ IsCached(account_info)
    /\ HasSlot(list, slot)
    /\ ~IsCached(InfoAtSlot(list, slot))

\* C7 as amended -- the reference count of an entry is never below the number
\* of non-cached versions in its slot list, and a merge that completes moves
\* the difference of the two by exactly one when a cached version replaces a
\* non-cached one (the count stays, the list loses a non-cached version), and
\* by nothing otherwise.
C7_RefCountTracksNonCached ==
    /\ [](\A e \in EntryIds :
            entries[e].ref_count >= NonCachedCount(entries[e].slot_list))
    /\ [][(MergeStep /\ ~panicked')
          =>
          LET k == last'.key
          IN  entries'[map[k]].ref_count
                - NonCachedCount(entries'[map[k]].slot_list)
              = RefCountOf(k) - NonCachedCount(SlotListOf(k))
                + (IF Demotes(SlotListOf(k), last'.slot, last'.info)
                   THEN 1 ELSE 0)]_vars

\* after a cached version replaced a stored one the count exceeds the number
\* of non-cached versions; the entry has been through an addref before
C7_Witness ==
    /\ Merged /\ ~panicked
    /\ IsCached(last.info)
    /\ last.displaced = <<last.slot, "stored">>
    /\ entries[last.handle].ref_count = 2
    /\ NonCachedCount(entries[last.handle].slot_list) = 1

\* C8 -- two-phase insert: insert_new_entry_if_missing_with_lock on an absent
\* key installs the new entry for the key, returns None and changes no other
\* key; on a present key it changes neither the map nor any entry and returns
\* Some of the existing entry, the account info of the new entry's pending
\* pair, and the key.
C8_TwoPhaseInsert ==
    [][last'.op = "insert_new_entry_if_missing_with_lock" =>
        LET k == last'.key
        IN  IF map[k] = NoEntry
            THEN /\ map'[k] # NoEntry
                 /\ entries'[map'[k]] = NewEntry(<<(<<last'.slot, last'.info>>)>>)
                 /\ last'.ret = FALSE
                 /\ \A o \in Keys \ {k} :
                       /\ map'[o] = map[o]
                       /\ map[o] # NoEntry => entries'[map[o]] = entries[map[o]]
                 /\ \A o \in Keys \ {k} : map'[k] # map[o]
            ELSE /\ map' = map
                 /\ entries' = entries
                 /\ ~panicked'
                 /\ last'.ret = TRUE
                 /\ last'.handle = map[k]
                 /\ last'.out_info = last'.info]_vars

\* the call found its key present, beside another key, and handed back the
\* existing entry
C8_Witness ==
    /\ last.op = "insert_new_entry_if_missing_with_lock"
    /\ last.ret = TRUE
    /\ last.handle = map[last.key]
    /\ last.out_info = "cached"
    /\ entries[last.handle].slot_list = <<(<<7, "stored">>)>>
    /\ \A k \in Keys : map[k] # NoEntry

\* the operation that ran last found its key present and drew on the slot list
\* of the new entry
DrewPending ==
    /\ last.op \in {"upsert", "insert_new_entry_if_missing_with_lock"}
    /\ last.handle # NoEntry

\* C10 as claimed -- an upsert or an insert_new_entry_if_missing_with_lock on a
\* present key whose new entry does not carry exactly one pair fails fatally.
C10_ExactlyOnePendingEnforced ==
    (DrewPending /\ last.npending # 1) => panicked

\* C10 as amended -- on a present key, a new entry with an empty slot list is
\* fatal (remove(0) panics) before anything is changed; a new entry with one
\* pair or more is not refused: the first pair is taken and the others are
\* ignored, so insert_new_entry_if_missing_with_lock returns the first account
\* info, and upsert leaves the slot list, the reclaim list and the assert
\* outcome that update_slot_list gives for the first pair alone.
C10_OnlyEmptyPendingFatal ==
    [][(DrewPending' /\ map[last'.key] # NoEntry) =>
        LET k == last'.key
        IN  IF last'.npending = 0
            THEN /\ panicked'
                 /\ map' = map /\ entries' = entries /\ reclaims' = reclaims
            ELSE IF last'.op = "upsert"
            THEN LET u == UpdateSlotList(SlotListOf(k), last'.slot, last'.info,
                                         reclaims, last'.flag)
                 IN  /\ entries'[map[k]].slot_list = u.list
                     /\ reclaims' = u.reclaims
                     /\ panicked' = u.panic
                     /\ map' = map
            ELSE /\ ~panicked'
                 /\ last'.ret = TRUE
                 /\ last'.out_info = last'.info
                 /\ map' = map /\ entries' = entries /\ reclaims' = reclaims]_vars

\* an upsert on a present key went through with two pairs in its new entry
C10_Witness ==
    /\ DrewPending
    /\ last.op = "upsert"
    /\ last.npending = 2
    /\ ~panicked
    /\ last.displaced # NoItem

\* C3 as claimed -- under every interleaving of remove_if_slot_list_empty with
\* threads that merge through a handle to the same entry, an entry leaves the
\* map only while its slot list is empty.
C3_RemovedOnlyWhileEmpty ==
    [][\A k \in Keys :
         (map[k] # NoEntry /\ map'[k] = NoEntry)
         => entries[map[k]].slot_list = <<>>]_vars

\* C9 -- shutdown determinism: a drop that returns has returned after the
\* background thread terminated, and a drop that has begun comes to its end
\* (it returns, unless the thread panicked) however the thread's check of the
\* flag and its wait interleave with the store of the flag and notify_all.
C9_ShutdownDeterminism ==
    /\ [](drop = "returned" => bg = "done")
    /\ (drop # "alive") ~> (drop = "returned" \/ bg = "panicked")
C9_Witness == drop = "returned" /\ bg = "done" /\ lost_notify

\* C11 -- cached-flag mismatch is fatal: a merge with
\* previous_slot_entry_was_cached = true at a slot that holds a stored
\* (non-cached) version fails fatally; and a merge with the flag set that
\* completes has displaced nothing or a cached version, so no stored version
\* is displaced without being pushed to the reclaim list.
C11_CachedFlagMismatchFatal ==
    /\ [][(/\ MergeStep
           /\ last'.flag
           /\ HasSlot(SlotListOf(last'.key), last'.slot)
           /\ ~IsCached(InfoAtSlot(SlotListOf(last'.key), last'.slot)))
          => panicked']_vars
    /\ [][(MergeStep /\ last'.flag /\ ~panicked')
          => (\/ last'.displaced = NoItem
              \/ IsCached(last'.displaced[2])
              \/ reclaims' = Append(reclaims, last'.displaced))]_vars

\* the assert has failed in a merge that was told the slot held a cached
\* version and found a stored one
C11_Witness ==
    /\ Merged /\ panicked
    /\ last.flag
    /\ last.displaced = <<last.slot, "stored">>

\* C12 -- removal is never automatic: a key leaves the map only in a step of
\* remove_if_slot_list_empty for that key, taken while the key's slot list is
\* empty; so get, entry, items, keys, len, is_empty, upsert and
\* insert_new_entry_if_missing_with_lock keep every present key present,
\* also one whose slot list is empty.
C12_RemovalNeverAutomatic ==
    [][\A k \in Keys :
         (map[k] # NoEntry /\ map'[k] = NoEntry)
         => (/\ last'.op = "remove_if_slot_list_empty"
             /\ last'.key = k
             /\ last'.ret = TRUE
             /\ SlotListOf(k) = <<>>)]_vars

\* a lookup has found a key whose slot list is empty, and the key is still
\* there
C12_Witness ==
    /\ last.op \in {"get", "entry"}
    /\ last.ret
    /\ map[last.key] # NoEntry
    /\ SlotListOf(last.key) = <<>>

\* C13 -- read purity: a get or entry step changes nothing but the stats (no
\* slot list, no reference count, not the key set); and when the step before
\* it was a get or entry of the same key, it returns what that one returned:
\* the same presence and the same entry.
C13_ReadPurity ==
    [][last'.op \in {"get", "entry"} =>
         /\ map' = map
         /\ entries' = entries
         /\ UNCHANGED <<reclaims, panicked, thread_vars, storage_vars>>
         /\ (last.op \in {"get", "entry"} /\ last.key = last'.key)
            => (last'.ret = last.ret /\ last'.handle = last.handle)
         /\ last'.ret = (map[last'.key] # NoEntry)
         /\ last'.handle = map[last'.key]]_vars

\* the second of two lookups that found their key
C13_Witness ==
    /\ last.op \in {"get", "entry"}
    /\ last.ret
    /\ last.handle = map[last.key]
    /\ stats.gets_from_mem = 2

\* C14 -- upsert dispatch: an upsert of a present key keeps the map's entry
\* for the key and merges the pending pair into its slot list once (the pair
\* takes the place of the item of its slot, or is appended; the reference
\* count moves by at most one); an upsert of an absent key installs the new
\* entry as it was handed in, whatever the flag, with the reclaim list
\* unchanged; no other key and no other entry is changed.
C14_UpsertDispatch ==
    [][last'.op = "upsert" =>
        LET k == last'.key
            pair == <<last'.slot, last'.info>>
        IN  /\ \A k2 \in Keys \ {k} :
                  /\ map'[k2] = map[k2]
                  /\ map[k2] # NoEntry => entries'[map[k2]] = entries[map[k2]]
            /\ IF map[k] # NoEntry
               THEN /\ map'[k] = map[k]
                    /\ entries'[map[k]].slot_list =
                          IF HasSlot(SlotListOf(k), last'.slot)
                          THEN [SlotListOf(k) EXCEPT
                                  ![IndexOfSlot(SlotListOf(k), last'.slot)] = pair]
                          ELSE Append(SlotListOf(k), pair)
                    /\ entries'[map[k]].ref_count \in
                          {RefCountOf(k), RefCountOf(k) + 1}
               ELSE /\ map'[k] # NoEntry
                    /\ \A k2 \in Keys \ {k} : map[k2] # map'[k]
                    /\ entries'[map'[k]] = NewEntry(<<pair>>)
                    /\ reclaims' = reclaims
                    /\ ~panicked']_vars

\* an upsert with the flag set has installed a new entry beside another key
C14_Witness ==
    /\ last.op = "upsert" /\ last.handle = NoEntry
    /\ last.flag
    /\ map[last.key] # NoEntry
    /\ \E k2 \in Keys \ {last.key} : map[k2] # NoEntry /\ map[k2] # map[last.key]

\* C15 -- abnormal termination is propagated: the join of a drop fails
\* fatally when the background thread panicked and returns normally when the
\* thread ended normally; a drop never returns normally after a panic of the
\* thread, and a drop in progress when the thread has panicked comes to its
\* fatal end.
C15_AbnormalTerminationPropagated ==
    /\ [][last'.op = "drop_join" =>
            /\ bg = "panicked" => drop' = "panicked"
            /\ bg = "done" => drop' = "returned"]_vars
    /\ [](bg = "panicked" => drop # "returned")
    /\ (bg = "panicked" /\ drop # "alive") ~> (drop = "panicked")

\* the thread panicked and the drop has failed at the join
C15_Witness == drop = "panicked" /\ bg = "panicked" /\ last.op = "drop_join"

\* C16 -- lookup counters: the lookups counted as found and as missing add up
\* to the get and entry calls the threads have completed, whatever the
\* interleaving; the step that completes a get or entry raises by one the
\* counter of its outcome (gets_from_mem for a key that is present,
\* gets_missing for one that is absent) and leaves the other counters alone;
\* an items step raises only the items counter, by one, and a keys step only
\* the keys counter, by one.
C16_LookupCounters ==
    /\ [](stats.gets_from_mem + stats.gets_missing = SumCalls(Threads))
    /\ [][last'.op \in {"get", "entry"} =>
            LET count == IF map[last'.key] # NoEntry THEN "gets_from_mem"
                         ELSE "gets_missing"
            IN  /\ last'.ret = (map[last'.key] # NoEntry)
                /\ stats' = [stats EXCEPT ![count] = @ + 1]]_vars
    /\ [][last'.op = "items" => stats' = [stats EXCEPT !.items = @ + 1]]_vars
    /\ [][last'.op = "keys" => stats' = [stats EXCEPT !.keys = @ + 1]]_vars

\* two threads have each completed a lookup, one counted as found and one as
\* missing
C16_Witness ==
    /\ last.op = "get"
    /\ stats.gets_from_mem = 1 /\ stats.gets_missing = 1
    /\ Cardinality({t \in Threads : th[t].calls = 1}) = 2
    /\ AllIdle

\* C17 -- teardown ordering: the exit flag is false until the drop begins and
\* is never reset once set; notify_all happens with the flag already set, and
\* the join happens after notify_all.
C17_TeardownOrdering ==
    /\ [](drop = "alive" <=> ~exit)
    /\ [][exit => exit']_vars
    /\ [][last'.op = "drop_notify_all" => (exit /\ drop = "exit_stored")]_vars
    /\ [][last'.op = "drop_join" => (exit /\ drop = "notified")]_vars

\* the drop has stored the flag, woken the waiting thread and joined it
C17_Witness ==
    /\ last.op = "drop_join"
    /\ exit /\ ~lost_notify
    /\ drop = "returned"

\* C18 -- concurrent merges are serialised per entry: no two threads are
\* inside a merge on the same entry, and a slot-list lock is busy only while
\* a thread is inside a merge on that very entry (so merges on different
\* entries do not wait for each other); every merge, from its scan to its
\* reference-count adjustment, takes the entry from what it was when the merge
\* began to exactly what lock_and_update_slot_list yields in one go (the slot
\* list, the reference count, what it pushed to its reclaim list and whether it
\* failed), so the merges take effect one after the other in the order in
\* which they took the lock.
C18_MergesSerialised ==
    /\ [](\A t1, t2 \in Threads :
            (t1 # t2 /\ InMerge(t1) /\ InMerge(t2)) => th[t1].cur # th[t2].cur)
    /\ [](\A e \in EntryIds :
            wlock[e] # Free => (InMerge(wlock[e]) /\ th[wlock[e]].cur = e))
    /\ [][\A t \in Threads :
            (th[t].pc = "scanned" /\ th'[t].pc = "written") =>
                LET r == LockAndUpdateSlotList(
                             th[t].seen, << <<th[t].slot, th[t].info>> >>,
                             <<>>, th[t].flag)
                IN  /\ entries'[th[t].cur].slot_list = r.current.slot_list
                    /\ th'[t].recl = r.reclaims
                    /\ th'[t].addref = r.addref
                    /\ panicked' = r.panic]_vars
    /\ [][\A t \in Threads :
            (th[t].pc = "written" /\ th'[t].pc = "updated") =>
                entries'[th[t].cur] =
                    LockAndUpdateSlotList(
                        th[t].seen, << <<th[t].slot, th[t].info>> >>,
                        <<>>, th[t].flag).current]_vars

\* one thread is inside a merge on an entry while another, holding a handle
\* to the same entry, waits for the lock, and the first has replaced an item
C18_Witness ==
    \E t1, t2 \in Updaters :
        /\ t1 # t2
        /\ th[t1].cur = th[t2].cur
        /\ th[t1].pc = "updated" /\ th[t1].recl # <<>>
        /\ th[t2].pc = "have"
        /\ ~panicked

\* C19 as claimed -- merges run to completion: whatever entries are passed as
\* the target and as the new entry and however the callers interleave, a
\* thread that has taken the target's lock in lock_and_update_slot_list comes
\* to the end of the call (or the call fails fatally); none stays blocked on
\* a slot-list lock for ever.
C19_MergesRunToCompletion ==
    \A t \in Updaters : (th[t].pc = "locked") ~> (th[t].pc # "locked" \/ panicked)

\* C20 -- merge frame: update_slot_list leaves every item of another slot in
\* its place with its value; it puts the incoming pair in the place of the
\* item of its slot and keeps the length of the list, or, when the slot is
\* not in the list, appends the pair; it leaves the reclaim list as it was or
\* appends to it the one item it displaced, as that item was.
C20_MergeFrame ==
    [][last'.op = "update_slot_list" =>
        LET old == entries[last'.handle].slot_list
            new == entries'[last'.handle].slot_list
            pair == <<last'.slot, last'.info>>
        IN  /\ \A i \in 1 .. Len(old) : old[i][1] # last'.slot => new[i] = old[i]
            /\ IF HasSlot(old, last'.slot)
               THEN /\ Len(new) = Len(old)
                    /\ new[IndexOfSlot(old, last'.slot)] = pair
                    /\ reclaims' \in
                          {reclaims,
                           Append(reclaims, old[IndexOfSlot(old, last'.slot)])}
               ELSE /\ new = Append(old, pair)
                    /\ reclaims' = reclaims]_vars

\* a pair has taken the second place of a list of two, and the item it
\* displaced has been appended to a reclaim list that held an item already
C20_Witness ==
    /\ last.op = "update_slot_list" /\ ~panicked
    /\ Len(entries[last.handle].slot_list) = 2
    /\ entries[last.handle].slot_list[2] = <<last.slot, last.info>>
    /\ Len(reclaims) = 2
    /\ reclaims[2] = last.displaced

====
